---- MODULE Spec2Model ----
(***************************************************************************)
(* A model of md_to_docx.py.                                               *)
(*                                                                         *)
(*  - MarkdownToDocxConverter: the HTMLParser callbacks handle_starttag,   *)
(*    handle_endtag and handle_data, with _handle_image, _create_table,    *)
(*    _add_horizontal_rule and _add_page_break, acting on the fields of    *)
(*    the converter object and on the python-docx document it builds.      *)
(*  - _preprocess_special_formatting: the four re.sub passes.              *)
(*  - main: the batch loop and its exit code.                              *)
(*                                                                         *)
(* Text is a sequence of tokens: one-character strings for parser data,    *)
(* whole strings for attribute values.  The empty string contributes no    *)
(* token, as in string concatenation.                                      *)
(***************************************************************************)
EXTENDS Integers, Sequences, FiniteSets, TLC

VARIABLES
    self,        \* the converter object: its fields, self.doc, and the exception that left a handler
    open,        \* history: the elements opened and not yet closed, innermost last
    wellnested,  \* history: every end tag so far closed the innermost open element, and
                 \* lists held items only and items were in lists
    last,        \* history: the event handled last, with what the converter was before it
    nevents,     \* number of events fed to the parser so far
    content,     \* _preprocess_special_formatting: its argument
    result,      \* _preprocess_special_formatting: its return value
    pc,          \* main: where it is
    args,        \* main: the parsed arguments
    outcomes,    \* history: how each call of convert_markdown_to_docx ended
    attempted,   \* history: the input files handed to convert_markdown_to_docx, in order
    success_count,
    failed_files,
    summary,     \* main: the batch summary printed, NoSummary while there is none
    exit_code    \* main: its return value, -1 while it runs

vars == <<self, open, wellnested, last, nevents, content, result,
          pc, args, outcomes, attempted, success_count, failed_files, summary, exit_code>>

convVars == <<self, open, wellnested, last, nevents>>
prepVars == <<content, result>>
mainVars == <<pc, args, outcomes, attempted, success_count, failed_files, summary, exit_code>>

(***************************************************************************)
(* Bounds of the model and constants of the program.                       *)
(***************************************************************************)
MaxEvents == 3          \* events fed under Spec (every tag)
MaxListEvents == 7      \* events fed under SpecList
MaxDeepEvents == 6      \* events fed under SpecDeep, after the nested lists
MaxInlineEvents == 4    \* events fed under SpecInline
MaxTableEvents == 15    \* events fed under SpecTable
MaxCellEvents == 8      \* events fed under SpecCell
MaxImageEvents == 3     \* events fed under SpecImage
MaxOrderEvents == 5     \* events fed under SpecOrder
MaxQuoteEvents == 4     \* events fed under SpecQuote
MaxStyleEvents == 8     \* events fed under SpecStyles
MaxWhiteEvents == 5     \* events fed under SpecWhite
MaxActiveEvents == 4     \* events fed under SpecActive
MaxAnchorEvents == 5    \* events fed under SpecAnchor
MaxUnknownEvents == 4   \* events fed under SpecUnknown
MaxFiles == 3           \* input files of main
MaxLen == 10            \* length of the preprocessed text

ListDepth == 10         \* len(self.list_counters)
RuleWidth == 80         \* '_' * 80
ExitInterrupt == 130

(***************************************************************************)
(* Python values.                                                          *)
(***************************************************************************)
None == 0                         \* self.current_paragraph = None
NoRun == [p |-> 0, r |-> 0]       \* self.current_run = None
NoExc == ""
Absent == "<absent>"              \* an attribute the tag does not carry

IsSpace(c) == c \in {" ", "\n", "\t"}

RECURSIVE lstrip(_)
lstrip(t) == IF t # <<>> /\ IsSpace(Head(t)) THEN lstrip(Tail(t)) ELSE t

RECURSIVE rstrip(_)
rstrip(t) == IF t # <<>> /\ IsSpace(t[Len(t)]) THEN rstrip(SubSeq(t, 1, Len(t) - 1)) ELSE t

\* str.strip()
strip(t) == rstrip(lstrip(t))

\* a string as text: '' has no characters
Tok(str) == IF str = "" THEN <<>> ELSE <<str>>

Digit == <<"0", "1", "2", "3", "4", "5", "6", "7", "8", "9">>

\* str(n) for n >= 0
RECURSIVE Str(_)
Str(n) == IF n < 10 THEN <<Digit[n + 1]>> ELSE Str(n \div 10) \o <<Digit[(n % 10) + 1]>>

RECURSIVE Repeat(_, _)
Repeat(c, n) == IF n = 0 THEN <<>> ELSE <<c>> \o Repeat(c, n - 1)

\* the parts put together last first
RECURSIVE join_Reversed(_)
join_Reversed(parts) == IF parts = <<>> THEN <<>> ELSE join_Reversed(Tail(parts)) \o Head(parts)

\* ''.join(parts)
RECURSIVE join(_)
join(parts) == IF parts = <<>> THEN <<>> ELSE Head(parts) \o join(Tail(parts))

\* the position (1-based) that Python's list[i] reads in a list of length n; 0: IndexError
PyIndex(i, n) == IF 0 <= i /\ i < n THEN i + 1
                 ELSE IF -n <= i /\ i < 0 THEN n + i + 1
                 ELSE 0

\* the width taken from the first row only
MaxLenOf_FirstRow(rows) == IF rows = <<>> THEN 0 ELSE Len(Head(rows))

RECURSIVE MaxLenOf(_)
MaxLenOf(rows) == IF rows = <<>> THEN 0
                  ELSE LET m == MaxLenOf(Tail(rows))
                       IN IF Len(Head(rows)) > m THEN Len(Head(rows)) ELSE m

(***************************************************************************)
(* The document (python-docx): a sequence of blocks, paragraphs and tables. *)
(***************************************************************************)
AllStyles == {"Heading 1", "Heading 2", "Heading 3", "Heading 4", "Heading 5", "Heading 6",
              "No Spacing", "List Number", "List Bullet", "Intense Quote",
              "Light Grid Accent 1", "Table Grid"}

\* a run as paragraph.add_run(text) makes it; `kind` tells which statement made it
Run(text, kind) ==
    [text |-> text, kind |-> kind,
     bold |-> FALSE, italic |-> FALSE, strike |-> FALSE, superscript |-> FALSE,
     subscript |-> FALSE, highlight |-> FALSE,
     code |-> FALSE, font |-> "", size |-> 0, color |-> ""]

Paragraph(text, style) ==
    [kind |-> "paragraph", style |-> style,
     runs |-> IF text = <<>> THEN <<>> ELSE <<Run(text, "initial")>>,
     indent |-> FALSE, spacing |-> FALSE, center |-> FALSE]

Raise(s, e) == [s EXCEPT !.raised = e]

\* doc.add_paragraph(text, style): the paragraph is in the body before its style is
\* looked up, and an unknown style name is a KeyError
add_paragraph(s, text, style) ==
    IF style = "Normal" \/ style \in s.styles
    THEN [s EXCEPT !.doc = Append(@, Paragraph(text, style))]
    ELSE Raise([s EXCEPT !.doc = Append(@, Paragraph(text, "Normal"))], "KeyError")

\* paragraph.add_run(...) on the paragraph at index p
add_run(s, p, run) == [s EXCEPT !.doc[p].runs = Append(@, run)]

RECURSIVE TextOf(_)
TextOf(runs) == IF runs = <<>> THEN <<>> ELSE Head(runs).text \o TextOf(Tail(runs))

\* paragraph.text
ParagraphText(s, p) == TextOf(s.doc[p].runs)

(***************************************************************************)
(* MarkdownToDocxConverter.__init__                                        *)
(***************************************************************************)
NewConverter(styles) ==
    [doc |-> <<>>, styles |-> styles,
     current_paragraph |-> None, current_run |-> NoRun,
     list_level |-> 0, ordered_list |-> FALSE,
     list_counters |-> [i \in 1..ListDepth |-> 0],
     in_code_block |-> FALSE, in_table |-> FALSE,
     bold |-> FALSE, italic |-> FALSE, code |-> FALSE, heading_level |-> 0,
     in_blockquote |-> FALSE, strikethrough |-> FALSE, superscript |-> FALSE,
     subscript |-> FALSE, highlight |-> FALSE,
     \* attributes __init__ does not create: `defined` holds those that exist
     defined |-> {}, link_url |-> "", table_data |-> <<>>,
     current_table_row |-> <<>>, current_cell_text |-> <<>>,
     raised |-> NoExc]

(***************************************************************************)
(* The sink's helpers of the converter.                                    *)
(***************************************************************************)
RemoteSources == {"http://h/p.png"}     \* src.startswith(('http://', 'https://'))

\* where loading the image can fail: urlopen (remote sources only) or run.add_picture
ImageOutcomes(src) == IF src \in RemoteSources THEN {"ok", "urlopen", "add_picture"}
                      ELSE {"ok", "add_picture"}

\* attrs.get(name, default)
Get(attrs, name, default) == IF attrs[name] = Absent THEN default ELSE attrs[name]

\* the except branch of _handle_image
image_fallback(s, attrs) ==
    LET src == Get(attrs, "src", "")
        fallback_text == IF attrs.alt = Absent THEN <<"[Image: ", src, "]">> ELSE Tok(attrs.alt)
        s1 == IF s.current_paragraph = None
              THEN LET a == add_paragraph(s, <<>>, "Normal")
                   IN [a EXCEPT !.current_paragraph = Len(a.doc)]
              ELSE s
    IN add_run(s1, s1.current_paragraph,
               [Run(<<"[">> \o fallback_text \o <<"]">>, "fallback") EXCEPT !.italic = TRUE])

_handle_image(s, attrs, io) ==
    LET src == Get(attrs, "src", "")
        cp == s.current_paragraph
        fresh == (cp # None /\ ParagraphText(s, cp) # <<>>) \/ cp = None
        s1 == IF fresh THEN add_paragraph(s, <<>>, "Normal") ELSE s
        img_paragraph == IF fresh THEN Len(s1.doc) ELSE cp
        s2 == [s1 EXCEPT !.doc[img_paragraph].center = TRUE]
        s3 == add_run(s2, img_paragraph, Run(<<>>, "empty"))
        s4 == [s3 EXCEPT !.doc[img_paragraph].runs[Len(s3.doc[img_paragraph].runs)].kind = "picture"]
        alt_text == Get(attrs, "alt", "")
        s5 == IF alt_text # ""
              THEN LET a == add_paragraph(s4, Tok(alt_text), "Normal")
                       n == Len(a.doc)
                   IN [a EXCEPT !.doc[n].center = TRUE,
                                !.doc[n].runs[1].italic = TRUE,
                                !.doc[n].runs[1].size = 9]
              ELSE s4
    IN IF src = "" THEN s
       ELSE IF src \in RemoteSources /\ io = "urlopen" THEN image_fallback(s2, attrs)
       ELSE IF io = "add_picture" THEN image_fallback(s3, attrs)
       ELSE [s5 EXCEPT !.current_paragraph = None, !.current_run = NoRun]

\* the preferred style or the default of the document, the grid never tried
TableStyle_NoGrid(styles) == IF "Light Grid Accent 1" \in styles THEN "Light Grid Accent 1"
                             ELSE "Normal Table"

\* the style the table gets: the preferred one, else the grid, else the default
TableStyle(styles) == IF "Light Grid Accent 1" \in styles THEN "Light Grid Accent 1"
                      ELSE IF "Table Grid" \in styles THEN "Table Grid"
                      ELSE "Normal Table"

\* the grid of doc.add_table(rows, cols) after the cells of table_data are written
TableCells(table_data, rows, cols) ==
    [i \in 1..rows |->
        [j \in 1..cols |->
            IF j <= Len(table_data[i])
            THEN [text |-> strip(table_data[i][j]), bold |-> (i = 1)]
            ELSE [text |-> <<>>, bold |-> FALSE]]]

_create_table(s) ==
    IF "table_data" \notin s.defined THEN Raise(s, "AttributeError")
    ELSE IF s.table_data = <<>> THEN s
    ELSE LET rows == Len(s.table_data)
             cols == MaxLenOf(s.table_data)
         IN IF rows = 0 \/ cols = 0 THEN s
            ELSE [s EXCEPT !.doc = Append(@, [kind |-> "table",
                                              style |-> TableStyle(s.styles),
                                              cells |-> TableCells(s.table_data, rows, cols)]),
                           !.table_data = <<>>]

_add_horizontal_rule(s) ==
    LET a == add_paragraph(s, <<>>, "Normal")
        n == Len(a.doc)
        b == add_run([a EXCEPT !.doc[n].spacing = TRUE], n,
                     [Run(Repeat("_", RuleWidth), "rule") EXCEPT !.color = "grey", !.size = 1])
    IN [b EXCEPT !.current_paragraph = None, !.current_run = NoRun]

_add_page_break(s) ==
    LET a == IF s.current_paragraph # None
             THEN add_run(s, s.current_paragraph, Run(<<>>, "pagebreak"))
             ELSE LET b == add_paragraph(s, <<>>, "Normal")
                  IN add_run(b, Len(b.doc), Run(<<>>, "pagebreak"))
    IN [a EXCEPT !.current_paragraph = None, !.current_run = NoRun]

(***************************************************************************)
(* handle_starttag, as a function of the converter.                        *)
(***************************************************************************)
Headings == {"h1", "h2", "h3", "h4", "h5", "h6"}

\* int(tag[1])
HeadingLevel(tag) == CHOOSE n \in 1..6 : tag = <<"h1", "h2", "h3", "h4", "h5", "h6">>[n]

\* self.current_paragraph = self.doc.add_paragraph(text, style); self.current_run = None
OpenParagraph(s, text, style) ==
    LET a == add_paragraph(s, text, style)
    IN IF a.raised # NoExc THEN a
       ELSE [a EXCEPT !.current_paragraph = Len(a.doc), !.current_run = NoRun]

StartList(s, ordered) ==
    LET a == [s EXCEPT !.ordered_list = ordered, !.list_level = s.list_level + 1]
        i == PyIndex(a.list_level - 1, ListDepth)
    IN IF ~ordered THEN a
       ELSE IF i = 0 THEN Raise(a, "IndexError")
       ELSE [a EXCEPT !.list_counters[i] = 0]

StartItem(s) ==
    LET i == PyIndex(s.list_level - 1, ListDepth)
        counter == s.list_counters[i] + 1
    IN IF s.ordered_list
       THEN IF i = 0 THEN Raise(s, "IndexError")
            ELSE OpenParagraph([s EXCEPT !.list_counters[i] = counter],
                               Str(counter) \o <<".", " ">>, "List Number")
       ELSE OpenParagraph(s, <<>>, "List Bullet")

StartBlockquote(s) ==
    LET a == add_paragraph([s EXCEPT !.in_blockquote = TRUE], <<>>, "Normal")
        n == Len(a.doc)
        b == [a EXCEPT !.current_paragraph = n]
        c == IF "Intense Quote" \in s.styles
             THEN [b EXCEPT !.doc[n].style = "Intense Quote"]
             ELSE [b EXCEPT !.doc[n].indent = TRUE, !.doc[n].spacing = TRUE]
    IN [c EXCEPT !.current_run = NoRun]

\* a pre start tag that opens the paragraph and leaves in_code_block as it was
StartPre_NoBlock(s) ==
    LET a == add_paragraph(s, <<>>, "Normal")
        n == Len(a.doc)
        b == [a EXCEPT !.current_paragraph = n]
    IN IF "No Spacing" \in s.styles
       THEN [b EXCEPT !.doc[n].style = "No Spacing", !.current_run = NoRun]
       ELSE Raise(b, "KeyError")

StartPre(s) ==
    LET a == add_paragraph([s EXCEPT !.in_code_block = TRUE], <<>>, "Normal")
        n == Len(a.doc)
        b == [a EXCEPT !.current_paragraph = n]
    IN IF "No Spacing" \in s.styles
       THEN [b EXCEPT !.doc[n].style = "No Spacing", !.current_run = NoRun]
       ELSE Raise(b, "KeyError")

\* a page break for every <div> that has a class
StartDiv_AnyClass(s, attrs) ==
    IF attrs.class # Absent THEN _add_page_break(s) ELSE s

\* attrs_dict.get('class') == 'pagebreak'
StartDiv(s, attrs) ==
    IF Get(attrs, "class", "") = "pagebreak" THEN _add_page_break(s) ELSE s

StartTag(s, tag, attrs, io) ==
    CASE tag \in Headings ->
            OpenParagraph([s EXCEPT !.heading_level = HeadingLevel(tag)], <<>>,
                          <<"Heading 1", "Heading 2", "Heading 3", "Heading 4",
                            "Heading 5", "Heading 6">>[HeadingLevel(tag)])
      [] tag = "p" -> OpenParagraph(s, <<>>, "Normal")
      [] tag \in {"strong", "b"} -> [s EXCEPT !.bold = TRUE]
      [] tag \in {"em", "i"} -> [s EXCEPT !.italic = TRUE]
      [] tag = "code" -> [s EXCEPT !.code = TRUE]
      [] tag = "pre" -> StartPre(s)
      [] tag = "ul" -> StartList(s, FALSE)
      [] tag = "ol" -> StartList(s, TRUE)
      [] tag = "li" -> StartItem(s)
      [] tag = "a" -> [s EXCEPT !.link_url = Get(attrs, "href", ""),
                                !.defined = @ \cup {"link_url"}]
      [] tag = "img" -> _handle_image(s, attrs, io)
      [] tag = "table" -> [s EXCEPT !.in_table = TRUE, !.table_data = <<>>,
                                    !.current_table_row = <<>>,
                                    !.defined = @ \cup {"table_data", "current_table_row"}]
      [] tag = "tr" -> [s EXCEPT !.current_table_row = <<>>,
                                 !.defined = @ \cup {"current_table_row"}]
      [] tag \in {"th", "td"} -> [s EXCEPT !.current_cell_text = <<>>,
                                          !.defined = @ \cup {"current_cell_text"}]
      [] tag = "br" -> IF s.current_paragraph # None
                       THEN add_run(s, s.current_paragraph, Run(<<"\n">>, "break"))
                       ELSE s
      [] tag = "blockquote" -> StartBlockquote(s)
      [] tag = "hr" -> _add_horizontal_rule(s)
      [] tag \in {"del", "s"} -> [s EXCEPT !.strikethrough = TRUE]
      [] tag = "sup" -> [s EXCEPT !.superscript = TRUE]
      [] tag = "sub" -> [s EXCEPT !.subscript = TRUE]
      [] tag = "mark" -> [s EXCEPT !.highlight = TRUE]
      [] tag = "div" -> StartDiv(s, attrs)
      [] OTHER -> s

(***************************************************************************)
(* handle_endtag, as a function of the converter.                          *)
(***************************************************************************)
\* the paragraph closed and the run left active
CloseParagraph_KeepRun(s) == [s EXCEPT !.current_paragraph = None]

CloseParagraph(s) == [s EXCEPT !.current_paragraph = None, !.current_run = NoRun]

\* handle_endtag's list branch resetting the counter one level too high
EndList_ResetsEnclosing(s, tag) ==
    LET a == [s EXCEPT !.list_level = s.list_level - 1]
        i == PyIndex(a.list_level - 1, ListDepth)
    IN IF tag # "ol" THEN a
       ELSE IF i = 0 THEN Raise(a, "IndexError")
       ELSE [a EXCEPT !.list_counters[i] = 0]

EndList(s, tag) ==
    LET a == [s EXCEPT !.list_level = s.list_level - 1]
        i == PyIndex(a.list_level, ListDepth)
    IN IF tag # "ol" THEN a
       ELSE IF i = 0 THEN Raise(a, "IndexError")
       ELSE [a EXCEPT !.list_counters[i] = 0]

EndAnchor(s) ==
    LET a == IF "link_url" \in s.defined /\ s.link_url # ""
             THEN LET b == IF s.current_paragraph # None /\ s.current_run # NoRun
                           THEN add_run(s, s.current_paragraph,
                                        [Run(<<" (", s.link_url, ")">>, "url")
                                            EXCEPT !.color = "blue", !.size = 9])
                           ELSE s
                  IN [b EXCEPT !.link_url = ""]
             ELSE s
    IN [a EXCEPT !.current_run = NoRun]

EndCell(s) ==
    IF {"current_table_row", "current_cell_text"} \subseteq s.defined
    THEN [s EXCEPT !.current_table_row = Append(@, join(s.current_cell_text))]
    ELSE Raise(s, "AttributeError")

EndRow(s) ==
    IF "current_table_row" \notin s.defined THEN Raise(s, "AttributeError")
    ELSE IF s.current_table_row = <<>> THEN s
    ELSE IF "table_data" \notin s.defined THEN Raise(s, "AttributeError")
    ELSE [s EXCEPT !.table_data = Append(@, s.current_table_row),
                   !.current_table_row = <<>>]

EndTable(s) ==
    LET a == _create_table(s)
    IN IF a.raised # NoExc THEN a ELSE [a EXCEPT !.in_table = FALSE]

EndTag(s, tag) ==
    CASE tag \in Headings -> CloseParagraph([s EXCEPT !.heading_level = 0])
      [] tag = "p" -> CloseParagraph(s)
      [] tag \in {"strong", "b"} -> [s EXCEPT !.bold = FALSE, !.current_run = NoRun]
      [] tag \in {"em", "i"} -> [s EXCEPT !.italic = FALSE, !.current_run = NoRun]
      [] tag = "code" -> [s EXCEPT !.code = FALSE, !.current_run = NoRun]
      [] tag = "pre" -> CloseParagraph([s EXCEPT !.in_code_block = FALSE])
      [] tag \in {"ul", "ol"} -> EndList(s, tag)
      [] tag = "li" -> CloseParagraph(s)
      [] tag = "a" -> EndAnchor(s)
      [] tag \in {"th", "td"} -> EndCell(s)
      [] tag = "tr" -> EndRow(s)
      [] tag = "table" -> EndTable(s)
      [] tag = "blockquote" -> CloseParagraph([s EXCEPT !.in_blockquote = FALSE])
      [] tag \in {"del", "s"} -> [s EXCEPT !.strikethrough = FALSE, !.current_run = NoRun]
      [] tag = "sup" -> [s EXCEPT !.superscript = FALSE, !.current_run = NoRun]
      [] tag = "sub" -> [s EXCEPT !.subscript = FALSE, !.current_run = NoRun]
      [] tag = "mark" -> [s EXCEPT !.highlight = FALSE, !.current_run = NoRun]
      [] OTHER -> s

(***************************************************************************)
(* handle_data, as a function of the converter.                            *)
(***************************************************************************)
\* the run self.current_run refers to
RunAt(s, cr) == s.doc[cr.p].runs[cr.r]

\* formatting_changed: the flags compared with the ones noted on the run
formatting_changed(s) ==
    \/ s.current_run = NoRun
    \/ s.bold # RunAt(s, s.current_run).bold
    \/ s.italic # RunAt(s, s.current_run).italic
    \/ s.strikethrough # RunAt(s, s.current_run).strike
    \/ s.superscript # RunAt(s, s.current_run).superscript
    \/ s.subscript # RunAt(s, s.current_run).subscript
    \/ s.highlight # RunAt(s, s.current_run).highlight

\* the run handle_data adds, with the formatting applied to it
DataRun(s, data) ==
    [text |-> data, kind |-> "text",
     bold |-> s.bold, italic |-> s.italic, strike |-> s.strikethrough,
     superscript |-> s.superscript, subscript |-> s.subscript, highlight |-> s.highlight,
     code |-> s.code,
     font |-> IF s.code \/ s.in_code_block THEN "Courier New" ELSE "",
     size |-> IF s.code \/ s.in_code_block THEN 10 ELSE 0,
     color |-> IF (s.code \/ s.in_code_block) /\ ~s.in_code_block THEN "red" ELSE ""]

Data(s, data) ==
    IF strip(data) = <<>> /\ ~s.in_code_block THEN s
    ELSE IF s.in_table /\ "current_cell_text" \in s.defined
    THEN [s EXCEPT !.current_cell_text = Append(@, data)]
    ELSE LET a == IF s.current_paragraph = None
                  THEN LET b == add_paragraph(s, <<>>, "Normal")
                       IN [b EXCEPT !.current_paragraph = Len(b.doc)]
                  ELSE s
             p == a.current_paragraph
         IN IF formatting_changed(a)
            THEN LET c == add_run(a, p, DataRun(a, data))
                 IN [c EXCEPT !.current_run = [p |-> p, r |-> Len(c.doc[p].runs)]]
            ELSE [a EXCEPT !.doc[a.current_run.p].runs[a.current_run.r].text = @ \o data]

(***************************************************************************)
(* The parser's events.  HTMLParser.feed calls the handlers in document    *)
(* order and an exception of a handler ends feed.  `open`, `wellnested`    *)
(* and `last` are history: the converter does not read them.               *)
(***************************************************************************)
NoSummary == [successful |-> 0, total |-> 0, failed |-> 0, lines |-> <<>>]

NoAttrs == [src |-> Absent, alt |-> Absent, href |-> Absent, class |-> Absent]

\* elements without content: <br>, <hr>, <img>, written <br /> by the Markdown library
Void == {"br", "hr", "img"}

NoEvent == [kind |-> "none", tag |-> "", attrs |-> NoAttrs, data |-> <<>>, io |-> "ok"]

Top == open[Len(open)]

\* an entry of `open` that stands for no element
NoEntry == [tag |-> "", items |-> 0, k |-> 0, para |-> 0, nruns |-> 0, texts |-> <<>>,
            deep |-> FALSE]

\* the number of runs handle_data has made in the blocks
RECURSIVE TextRuns(_)
TextRuns(blocks) ==
    IF blocks = <<>> THEN 0
    ELSE TextRuns(Tail(blocks))
         + IF Head(blocks).kind = "paragraph"
           THEN Cardinality({r \in 1..Len(Head(blocks).runs) : Head(blocks).runs[r].kind = "text"})
           ELSE 0

\* the number of lists among the open elements
Depth(stack) == Cardinality({i \in 1..Len(stack) : stack[i].tag \in {"ul", "ol"}})

\* the stack of open elements after a start tag.  An <li> notes its rank among the
\* items of its list and the paragraph made for it; every element notes the number of
\* text runs there were when it opened; a list opened beyond ListDepth levels marks
\* the elements around it
PushOn(stack, tag, after) ==
    IF tag \in Void THEN stack
    ELSE LET inList == stack # <<>> /\ stack[Len(stack)].tag \in {"ul", "ol"} /\ tag = "li"
             k == IF inList THEN stack[Len(stack)].items + 1 ELSE 0
             below == IF inList THEN [stack EXCEPT ![Len(stack)].items = k] ELSE stack
             marked == IF tag \in {"ul", "ol"} /\ Depth(stack) >= ListDepth
                       THEN [i \in 1..Len(below) |-> [below[i] EXCEPT !.deep = TRUE]]
                       ELSE below
         IN Append(marked, [NoEntry EXCEPT !.tag = tag, !.k = k,
                                           !.para = IF tag = "li" /\ after.raised = NoExc
                                                    THEN Len(after.doc) ELSE 0,
                                           !.nruns = TextRuns(after.doc)])

Push(tag, after) == PushOn(open, tag, after)

\* `last` before any event, for the converter c
NoLast(c) == [kind |-> "none", tag |-> "", attrs |-> NoAttrs, data |-> <<>>, io |-> "ok",
              before |-> c, top |-> NoEntry]

Closes(tag) == open # <<>> /\ Top.tag = tag

\* the content model of lists: a list holds items only, and an item is in a list
Nests(tag) ==
    /\ (open # <<>> /\ Top.tag \in {"ul", "ol"}) => tag = "li"
    /\ tag = "li" => (open # <<>> /\ Top.tag \in {"ul", "ol"})

Pop(tag) == IF tag \notin Void /\ Closes(tag) THEN SubSeq(open, 1, Len(open) - 1) ELSE open

Feed(ev, after) ==
    /\ self.raised = NoExc
    /\ self' = after
    /\ last' = [kind |-> ev.kind, tag |-> ev.tag, attrs |-> ev.attrs, data |-> ev.data,
                io |-> ev.io, before |-> self,
                top |-> IF open = <<>> THEN NoEntry ELSE Top]
    /\ nevents' = nevents + 1
    /\ UNCHANGED <<prepVars, mainVars>>

handle_starttag(tag, attrs) ==
    \E io \in IF tag = "img" /\ Get(attrs, "src", "") # ""
               THEN ImageOutcomes(Get(attrs, "src", "")) ELSE {"ok"} :
        LET after == StartTag(self, tag, attrs, io)
        IN /\ Feed([NoEvent EXCEPT !.kind = "start", !.tag = tag, !.attrs = attrs, !.io = io],
                   after)
           /\ open' = Push(tag, after)
           /\ wellnested' = (wellnested /\ Nests(tag))

handle_endtag(tag) ==
    /\ Feed([NoEvent EXCEPT !.kind = "end", !.tag = tag], EndTag(self, tag))
    /\ open' = Pop(tag)
    /\ wellnested' = (wellnested /\ (tag \in Void \/ Closes(tag)))

handle_data(data) ==
    /\ Feed([NoEvent EXCEPT !.kind = "data", !.data = data], Data(self, data))
    /\ open' = IF open # <<>> /\ Top.tag \in {"th", "td"}
               THEN [open EXCEPT ![Len(open)].texts = Append(@, data)]
               ELSE open
    /\ UNCHANGED wellnested

InitConverter ==
    /\ self = NewConverter(AllStyles)
    /\ open = <<>>
    /\ wellnested = TRUE
    /\ last = NoLast(NewConverter(AllStyles))
    /\ nevents = 0
    /\ content = <<>> /\ result = <<>>
    /\ pc = "off" /\ args = "none" /\ outcomes = <<>> /\ attempted = <<>>
    /\ success_count = 0 /\ failed_files = <<>> /\ summary = NoSummary /\ exit_code = -1

(***************************************************************************)
(* SpecList: the converter fed list tags only.                             *)
(***************************************************************************)
ListTags == {"ul", "ol", "li"}

NextList ==
    /\ nevents < MaxListEvents
    /\ \/ \E tag \in ListTags : handle_starttag(tag, NoAttrs)
       \/ \E tag \in ListTags : handle_endtag(tag)

SpecList == InitConverter /\ [][NextList]_vars

(***************************************************************************)
(* Ordered lists (SpecList).                                               *)
(***************************************************************************)
Started(tag) == last.kind = "start" /\ last.tag = tag
Ended(tag) == last.kind = "end" /\ last.tag = tag

\* the paragraph of the open <li> at position i of `open` is a numbered one, with its rank
NumberedItem(i) ==
    /\ open[i].para # 0
    /\ self.doc[open[i].para].style = "List Number"
    /\ self.doc[open[i].para].runs # <<>>
    /\ self.doc[open[i].para].runs[1].text = Str(open[i].k) \o <<".", " ">>

\* C1: in a well-nested event sequence, the k-th <li> that is a direct child of an
\* <ol> opens a paragraph prefixed with "k. ", whatever <ul> sublists were opened
\* and closed inside earlier items of that <ol>.
C1_OrderedItemNumbered ==
    wellnested =>
        \A i \in 2..Len(open) :
            (open[i].tag = "li" /\ open[i - 1].tag = "ol") => NumberedItem(i)

\* C2: when an <ol> opens at depth d the counter of depth d is 0, and opening an
\* <ol> at depth d + 1, numbering its items and closing it leave the counter of
\* depth d as it was.
C2_CounterScoped ==
    /\ (Started("ol") /\ self.raised = NoExc /\ self.list_level \in 1..ListDepth)
            => self.list_counters[self.list_level] = 0
    /\ \A d \in 1..ListDepth :
            (\/ Started("ol") /\ self.list_level = d + 1
             \/ Started("li") /\ last.before.ordered_list /\ last.before.list_level = d + 1
             \/ Ended("ol") /\ last.before.list_level = d + 1)
            => self.list_counters[d] = last.before.list_counters[d]

\* an inner <ol> that numbered an item has just closed inside a numbered item of the
\* outer <ol>
C2_Witness ==
    /\ Ended("ol") /\ wellnested
    /\ last.before.list_level = 2
    /\ last.before.list_counters[2] = 1
    /\ self.list_counters[1] = 1
    /\ self.list_counters[2] = 0

\* the paragraph of the open <li> at position i of `open` starts with a prefix run
Prefixed(i) ==
    /\ self.doc[open[i].para].runs # <<>>
    /\ self.doc[open[i].para].runs[1].kind = "initial"

\* C16: in a well-nested event sequence each <li> opens a paragraph in the style of
\* its innermost enclosing list: a bulleted paragraph without prefix in a <ul>, a
\* numbered paragraph with prefix in an <ol>, also after a nested sublist of the
\* other kind has closed.
C16_ItemStyleOfList ==
    wellnested =>
        \A i \in 2..Len(open) :
            open[i].tag = "li" =>
                /\ open[i].para # 0
                /\ open[i - 1].tag = "ul" =>
                        (self.doc[open[i].para].style = "List Bullet" /\ ~Prefixed(i))
                /\ open[i - 1].tag = "ol" =>
                        (self.doc[open[i].para].style = "List Number" /\ Prefixed(i))

(***************************************************************************)
(* SpecDeep: the converter fed list tags inside lists already nested       *)
(* ListDepth - 1 or ListDepth levels deep, each level a list of one kind   *)
(* with its first item open.                                               *)
(***************************************************************************)
\* the start tags <kind><li> ... <kind><li> of n levels
RECURSIVE NestedTags(_, _)
NestedTags(kind, n) == IF n = 0 THEN <<>> ELSE <<kind, "li">> \o NestedTags(kind, n - 1)

\* the converter and the open elements after the start tags, fed to c in turn; an
\* exception of a handler ends feed
RECURSIVE Nested(_, _)
Nested(c, tags) ==
    IF tags = <<>> THEN c
    ELSE LET after == StartTag(c.self, Head(tags), NoAttrs, "ok")
             next == [self |-> after, open |-> PushOn(c.open, Head(tags), after)]
         IN IF after.raised # NoExc THEN next ELSE Nested(next, Tail(tags))

InitDeep ==
    /\ \E kind \in {"ul", "ol"} : \E n \in {ListDepth - 1, ListDepth} :
        LET c == Nested([self |-> NewConverter(AllStyles), open |-> <<>>], NestedTags(kind, n))
        IN self = c.self /\ open = c.open /\ last = NoLast(c.self)
    /\ wellnested = TRUE
    /\ nevents = 0
    /\ content = <<>> /\ result = <<>>
    /\ pc = "off" /\ args = "none" /\ outcomes = <<>> /\ attempted = <<>>
    /\ success_count = 0 /\ failed_files = <<>> /\ summary = NoSummary /\ exit_code = -1

NextDeep ==
    /\ nevents < MaxDeepEvents
    /\ \/ \E tag \in ListTags : handle_starttag(tag, NoAttrs)
       \/ \E tag \in ListTags : handle_endtag(tag)

SpecDeep == InitDeep /\ [][NextDeep]_vars

\* the list event handled last was about a list nested deeper than ListDepth levels:
\* such a list opened, an item of it opened or closed, or it closed
BeyondDepth ==
    /\ wellnested
    /\ last.kind \in {"start", "end"} /\ last.tag \in ListTags
    /\ IF last.kind = "end" /\ last.tag \in {"ul", "ol"}
       THEN Depth(open) >= ListDepth
       ELSE Depth(open) > ListDepth

\* C15: when lists nest deeper than 10 levels, opening, numbering and closing the
\* lists beyond depth 10 changes no counter of depths 1 to 10, and the items that
\* follow in the enclosing ordered lists of depths 1 to 10 keep their numbers.
C15_DeepListsKeepCounters ==
    /\ BeyondDepth =>
        \A d \in 1..ListDepth : self.list_counters[d] = last.before.list_counters[d]
    /\ wellnested =>
        \A i \in 2..Len(open) :
            (/\ open[i].tag = "li" /\ open[i - 1].tag = "ol" /\ open[i - 1].deep
             /\ Depth(SubSeq(open, 1, i)) <= ListDepth)
                => NumberedItem(i)

(***************************************************************************)
(* SpecInline: the converter fed paragraph tags, inline formatting tags    *)
(* and text.                                                               *)
(***************************************************************************)
InlineTags == {"p", "strong", "b", "em", "i", "code", "del", "s", "sup", "sub", "mark"}

InlineData == {<<"a">>, <<" ">>}

NextInline ==
    /\ nevents < MaxInlineEvents
    /\ \/ \E tag \in InlineTags : handle_starttag(tag, NoAttrs)
       \/ \E tag \in InlineTags : handle_endtag(tag)
       \/ \E data \in InlineData : handle_data(data)

SpecInline == InitConverter /\ [][NextInline]_vars

\* the formatting state: of the converter, and as it was when handle_data made a run
\* (DataRun notes all seven flags on the run it makes)
FormattingState(s) ==
    <<s.bold, s.italic, s.strikethrough, s.superscript, s.subscript, s.highlight, s.code>>

RunState(run) ==
    <<run.bold, run.italic, run.strike, run.superscript, run.subscript, run.highlight, run.code>>

\* C3: with paragraph tags, inline formatting tags and text only, no paragraph holds
\* two adjacent runs made by handle_data whose recorded formatting states are equal.
C3_NoEqualAdjacentRuns ==
    wellnested =>
        \A p \in 1..Len(self.doc) :
            \A r \in 1..(Len(self.doc[p].runs) - 1) :
                (self.doc[p].runs[r].kind = "text" /\ self.doc[p].runs[r + 1].kind = "text")
                    => RunState(self.doc[p].runs[r]) # RunState(self.doc[p].runs[r + 1])

\* an element of one of the tags is open
AnyOpen(tags) == \E i \in 1..Len(open) : open[i].tag \in tags

\* C24: in a well-nested sequence, text received while an element of an inline
\* formatting kind is open is placed in a run that has that formatting, also when
\* elements of the kind are nested and an inner one has closed; text received while
\* no element of the kind is open is placed in a run without it.
C24_FormattingOfOpenElements ==
    (/\ wellnested
     /\ last.kind = "data" /\ \E k \in 1..Len(last.data) : ~IsSpace(last.data[k]))
        => /\ self.current_run # NoRun
           /\ LET run == RunAt(self, self.current_run)
              IN /\ run.bold = AnyOpen({"strong", "b"})
                 /\ run.italic = AnyOpen({"em", "i"})
                 /\ run.strike = AnyOpen({"del", "s"})
                 /\ run.superscript = AnyOpen({"sup"})
                 /\ run.subscript = AnyOpen({"sub"})
                 /\ run.highlight = AnyOpen({"mark"})

\* handle_data has just appended its text to the run that was active before it
Merged ==
    /\ last.kind = "data"
    /\ last.before.current_run # NoRun
    /\ self.current_run = last.before.current_run
    /\ RunAt(self, self.current_run).text = RunAt(last.before, self.current_run).text \o last.data

\* C4: outside a table cell, handle_data appends to the active run only if every
\* flag of the formatting state, code included, has the value it had when the run
\* was made.
C4_MergeOnlySameState ==
    Merged => FormattingState(last.before) = RunState(RunAt(last.before, self.current_run))

(***************************************************************************)
(* SpecTable: the converter fed table, row and cell tags and text.         *)
(***************************************************************************)
TableTags == {"table", "tr", "td"}

TableData == {<<" ", "a", " ">>}

\* table markup as the Markdown library writes it: rows in a table, cells in a row,
\* every element closed by its own end tag
TableNests(tag) ==
    CASE tag = "table" -> open = <<>>
      [] tag = "tr" -> Closes("table")
      [] tag = "td" -> Closes("tr")

NextTable ==
    /\ nevents < MaxTableEvents
    /\ \/ \E tag \in TableTags : TableNests(tag) /\ handle_starttag(tag, NoAttrs)
       \/ \E tag \in TableTags : Closes(tag) /\ handle_endtag(tag)
       \/ \E data \in TableData : handle_data(data)

SpecTable == InitConverter /\ [][NextTable]_vars

\* x is t without the whitespace at its two ends
IsTrimOf(x, t) ==
    \E i, j \in 0..Len(t) :
        /\ i + j <= Len(t)
        /\ x = SubSeq(t, i + 1, Len(t) - j)
        /\ \A k \in 1..i : IsSpace(t[k])
        /\ \A k \in (Len(t) - j + 1)..Len(t) : IsSpace(t[k])
        /\ x # <<>> => (~IsSpace(x[1]) /\ ~IsSpace(x[Len(x)]))

\* </table> has just been handled with rows in the buffer
TableEnded == Ended("table") /\ "table_data" \in last.before.defined
              /\ last.before.table_data # <<>>

\* the block is the grid of the rows: as many rows, the width of the longest, each
\* cell the trimmed text of the buffered cell or empty where the row has none
IsGridOf(block, rows) ==
    /\ block.kind = "table"
    /\ Len(block.cells) = Len(rows)
    /\ \E w \in 1..MaxTableEvents :
        /\ \A i \in 1..Len(rows) : Len(rows[i]) <= w /\ Len(block.cells[i]) = w
        /\ \E i \in 1..Len(rows) : Len(rows[i]) = w
    /\ \A i \in 1..Len(rows) :
        \A j \in 1..Len(block.cells[i]) :
            IF j <= Len(rows[i])
            THEN IsTrimOf(block.cells[i][j].text, rows[i][j])
            ELSE block.cells[i][j].text = <<>>

\* C5: at table end the grid emitted for the buffered rows, of whatever cell counts,
\* has one row per buffered row and the width of the longest; cell (i, j) holds the
\* trimmed text of the j-th cell of row i, or nothing where the row has no such
\* cell; no error is raised.
C5_RaggedGrid ==
    TableEnded =>
        /\ self.raised = NoExc
        /\ Len(self.doc) = Len(last.before.doc) + 1
        /\ IsGridOf(self.doc[Len(self.doc)], last.before.table_data)

\* a table of two rows of different cell counts, one cell with text to trim, was emitted
C5_Witness ==
    /\ TableEnded /\ self.raised = NoExc
    /\ \E i, k \in 1..Len(last.before.table_data) :
            Len(last.before.table_data[i]) < Len(last.before.table_data[k])
    /\ \E i \in 1..Len(last.before.table_data) :
            \E j \in 1..Len(last.before.table_data[i]) :
                /\ last.before.table_data[i][j] # <<>>
                /\ self.doc[Len(self.doc)].cells[i][j].text # last.before.table_data[i][j]
    /\ self.doc[Len(self.doc)].kind = "table"

(***************************************************************************)
(* SpecOrder: the converter fed paragraphs holding text, line breaks and   *)
(* images whose loading may fail.                                          *)
(***************************************************************************)
OrderAttrs == {[NoAttrs EXCEPT !.src = "pic.png"]}

OrderData == {<<"a">>, <<"b">>}

NextOrder ==
    /\ nevents < MaxOrderEvents
    /\ \/ handle_starttag("p", NoAttrs)
       \/ handle_endtag("p")
       \/ handle_starttag("br", NoAttrs)
       \/ \E attrs \in OrderAttrs : handle_starttag("img", attrs)
       \/ \E data \in OrderData : handle_data(data)

SpecOrder == InitConverter /\ [][NextOrder]_vars

\* text, a line break or an image that failed to load has just arrived while a
\* paragraph was active
ArrivedInParagraph ==
    /\ last.before.current_paragraph # None
    /\ \/ last.kind = "data"
       \/ Started("br")
       \/ Started("img") /\ last.io # "ok"

\* what the event puts in the paragraph: the text, the break or the placeholder
Fragment ==
    IF last.kind = "data" THEN last.data
    ELSE IF last.tag = "br" THEN <<"\n">>
    ELSE <<"[", "[Image: ", Get(last.attrs, "src", ""), "]", "]">>

\* C21: within one paragraph output order equals arrival order: a text event, a line
\* break or a failing image received while the paragraph is active leaves the
\* paragraph reading as before with its own fragment at the end, so that text received
\* after a line break or a placeholder is never placed before it.
C21_ArrivalOrder ==
    ArrivedInParagraph =>
        /\ self.current_paragraph = last.before.current_paragraph
        /\ ParagraphText(self, self.current_paragraph)
              = ParagraphText(last.before, self.current_paragraph) \o Fragment

(***************************************************************************)
(* SpecActive: the converter fed, in any order, the tags whose handlers    *)
(* open, close or replace the active paragraph or the active run, and text.*)
(***************************************************************************)
ActiveStartTags == {"h1", "p", "strong", "pre", "ul", "li", "a", "img", "table", "td", "br",
                    "blockquote", "hr", "div"}

ActiveEndTags == {"h1", "p", "strong", "pre", "ul", "li", "a", "table", "blockquote"}

ActiveAttrs(tag) ==
    CASE tag = "img" -> OrderAttrs
      [] tag = "a" -> {[NoAttrs EXCEPT !.href = "http://u"]}
      [] tag = "div" -> {[NoAttrs EXCEPT !.class = "pagebreak"]}
      [] OTHER -> {NoAttrs}

ActiveData == {<<"a">>, <<" ">>}

NextActive ==
    /\ nevents < MaxActiveEvents
    /\ \/ \E tag \in ActiveStartTags : \E attrs \in ActiveAttrs(tag) : handle_starttag(tag, attrs)
       \/ \E tag \in ActiveEndTags : handle_endtag(tag)
       \/ \E data \in ActiveData : handle_data(data)

SpecActive == InitConverter /\ [][NextActive]_vars

\* C22: in every reachable state an active run exists only if an active paragraph
\* exists, and the active run is one of the runs of the active paragraph.
C22_ActiveRunInActiveParagraph ==
    self.current_run # NoRun =>
        /\ self.current_paragraph # None
        /\ self.current_run.p = self.current_paragraph
        /\ self.current_run.r \in 1..Len(self.doc[self.current_paragraph].runs)

\* text has got a run in a paragraph that replaced one holding a run of its own
C22_Witness ==
    /\ last.kind = "data"
    /\ self.current_run # NoRun
    /\ self.current_run.p > 1
    /\ self.doc[1].kind = "paragraph" /\ self.doc[1].runs # <<>>
    /\ last.before.current_run = NoRun

(***************************************************************************)
(* SpecCell: the converter fed text, and tables of rows of header and data *)
(* cells with text in and between them.                                    *)
(***************************************************************************)
CellTags == {"table", "tr", "th", "td"}

CellData == {<<"a">>, <<"b">>, <<" ">>}

\* tables do not nest: rows in a table, cells in a row
CellNests(tag) ==
    CASE tag = "table" -> open = <<>>
      [] tag = "tr" -> Closes("table")
      [] tag \in {"th", "td"} -> Closes("tr")

NextCell ==
    /\ nevents < MaxCellEvents
    /\ \/ \E tag \in CellTags : CellNests(tag) /\ handle_starttag(tag, NoAttrs)
       \/ \E tag \in CellTags : Closes(tag) /\ handle_endtag(tag)
       \/ \E data \in CellData : handle_data(data)

SpecCell == InitConverter /\ [][NextCell]_vars

\* the text events that are not whitespace only, one after the other
RECURSIVE Accumulated(_)
Accumulated(texts) ==
    IF texts = <<>> THEN <<>>
    ELSE IF \A k \in 1..Len(Head(texts)) : IsSpace(Head(texts)[k]) THEN Accumulated(Tail(texts))
    ELSE Head(texts) \o Accumulated(Tail(texts))

\* text that is not whitespace only has just come inside an open cell
TextInCell ==
    /\ last.kind = "data" /\ \E k \in 1..Len(last.data) : ~IsSpace(last.data[k])
    /\ open # <<>> /\ Top.tag \in {"th", "td"}

\* C18: text that is not whitespace only, received between a cell start tag and its
\* end tag in an open table, is appended to the cell's accumulator and has no other
\* effect (no paragraph, no run, active paragraph and run as before); at the cell end
\* the row gets the texts accumulated since the cell's start tag, concatenated in order.
C18_CellTextAccumulates ==
    /\ TextInCell =>
        /\ self.current_cell_text = Append(last.before.current_cell_text, last.data)
        /\ self = [last.before EXCEPT !.current_cell_text = self.current_cell_text]
    /\ (last.kind = "end" /\ last.tag \in {"th", "td"}) =>
        /\ self.raised = NoExc
        /\ self.current_table_row
                = Append(last.before.current_table_row, Accumulated(last.top.texts))

\* a cell has closed that got "a", whitespace and "b" while a run made before the
\* table was active
C18_Witness ==
    /\ Ended("td")
    /\ last.top.texts = <<(<<"a">>), (<<" ">>), (<<"b">>)>>
    /\ self.current_table_row = <<(<<"a", "b">>)>>
    /\ self.current_run # NoRun

(***************************************************************************)
(* SpecWhite: the converter fed text and whitespace in and around          *)
(* paragraphs, preformatted blocks and table cells.                        *)
(***************************************************************************)
WhiteTags == {"p", "pre", "table", "td"}

WhiteData == {<<" ">>, <<"a">>}

IsOpen(tag) == \E i \in 1..Len(open) : open[i].tag = tag

\* neither preformatted blocks nor tables nest in themselves; a cell is in a table
WhiteNests(tag) ==
    CASE tag = "pre" -> ~IsOpen("pre")
      [] tag = "table" -> ~IsOpen("table")
      [] tag = "td" -> IsOpen("table") /\ ~IsOpen("td")
      [] OTHER -> TRUE

NextWhite ==
    /\ nevents < MaxWhiteEvents
    /\ \/ \E tag \in WhiteTags : WhiteNests(tag) /\ handle_starttag(tag, NoAttrs)
       \/ \E tag \in WhiteTags : Closes(tag) /\ handle_endtag(tag)
       \/ \E data \in WhiteData : handle_data(data)

SpecWhite == InitConverter /\ [][NextWhite]_vars

\* a text event of whitespace only has just been handled
WhitespaceText ==
    last.kind = "data" /\ \A k \in 1..Len(last.data) : IsSpace(last.data[k])

\* the text of the event is in the output: at the end of the run that was active, or
\* alone in a new run at the end of the active paragraph
ReachesRun ==
    /\ self.raised = NoExc
    /\ self.current_run # NoRun
    /\ \/ /\ self.current_run = last.before.current_run
          /\ self.doc = [last.before.doc EXCEPT
                 ![self.current_run.p].runs[self.current_run.r].text = @ \o last.data]
       \/ /\ self.current_run.p = self.current_paragraph
          /\ self.current_run.r = Len(self.doc[self.current_paragraph].runs)
          /\ RunAt(self, self.current_run).text = last.data
          /\ self.current_run # last.before.current_run

\* whitespace-only text changes nothing when no preformatted block is open
WhitespaceIgnored == (WhitespaceText /\ ~IsOpen("pre")) => self = last.before

\* C19 as stated: whitespace-only text changes nothing when no preformatted block is
\* open, and in an open preformatted block it reaches the active run or a new run of
\* the active paragraph.
C19_WhitespaceReachesRun ==
    /\ WhitespaceIgnored
    /\ (WhitespaceText /\ IsOpen("pre")) => ReachesRun

\* C19 amended: whitespace-only text changes nothing when no preformatted block is
\* open; in an open preformatted block with no table open it is not discarded and
\* reaches the active run or a new run of the active paragraph.
C19_WhitespaceOutsideTables ==
    /\ WhitespaceIgnored
    /\ (WhitespaceText /\ IsOpen("pre") /\ ~IsOpen("table")) => ReachesRun

\* whitespace has been appended to the run that held "a" in a preformatted block
C19_Witness ==
    /\ WhitespaceText /\ IsOpen("pre") /\ ~IsOpen("table")
    /\ RunAt(self, self.current_run).text = <<"a", " ">>

(***************************************************************************)
(* SpecStyles: the converter writing blockquotes and tables to a document  *)
(* whose template has any of the quote and table styles, or none.          *)
(***************************************************************************)
OptionalStyles == {"Intense Quote", "Light Grid Accent 1", "Table Grid"}

StyleTags == {"blockquote", "table", "tr", "td"}

StyleData == {<<"a">>}

InitStyles ==
    /\ \E have \in SUBSET OptionalStyles :
          /\ self = NewConverter((AllStyles \ OptionalStyles) \cup have)
          /\ last = NoLast(NewConverter((AllStyles \ OptionalStyles) \cup have))
    /\ open = <<>>
    /\ wellnested = TRUE
    /\ nevents = 0
    /\ content = <<>> /\ result = <<>>
    /\ pc = "off" /\ args = "none" /\ outcomes = <<>> /\ attempted = <<>>
    /\ success_count = 0 /\ failed_files = <<>> /\ summary = NoSummary /\ exit_code = -1

\* tables do not nest and hold rows of cells; a blockquote is not inside a table
StyleNests(tag) ==
    CASE tag = "blockquote" -> ~IsOpen("table")
      [] tag = "table" -> ~IsOpen("table")
      [] tag = "tr" -> Closes("table")
      [] tag = "td" -> Closes("tr")

NextStyles ==
    /\ nevents < MaxStyleEvents
    /\ \/ \E tag \in StyleTags : StyleNests(tag) /\ handle_starttag(tag, NoAttrs)
       \/ \E tag \in StyleTags : Closes(tag) /\ handle_endtag(tag)
       \/ \E data \in StyleData : handle_data(data)

SpecStyles == InitStyles /\ [][NextStyles]_vars

\* the table the end tag has just added to the document, if it added one
TableMade ==
    /\ Ended("table")
    /\ Len(self.doc) = Len(last.before.doc) + 1
    /\ self.doc[Len(self.doc)].kind = "table"

\* C20: whatever styles the document has, a table gets the preferred style, else the
\* grid style, else keeps the default, a blockquote gets the quote style, else manual
\* indentation and spacing, and neither the table end nor the blockquote start raises.
C20_StyleFallbacks ==
    /\ Started("blockquote") =>
        /\ self.raised = NoExc
        /\ self.current_paragraph = Len(self.doc)
        /\ LET p == self.doc[self.current_paragraph]
           IN IF "Intense Quote" \in self.styles
              THEN p.style = "Intense Quote" /\ ~p.indent /\ ~p.spacing
              ELSE p.style = "Normal" /\ p.indent /\ p.spacing
    /\ Ended("table") =>
        /\ self.raised = NoExc
        /\ last.before.table_data # <<>> => TableMade
        /\ TableMade =>
             self.doc[Len(self.doc)].style =
                CASE "Light Grid Accent 1" \in self.styles -> "Light Grid Accent 1"
                  [] "Light Grid Accent 1" \notin self.styles /\ "Table Grid" \in self.styles
                       -> "Table Grid"
                  [] OTHER -> "Normal Table"

\* with neither the quote style nor the preferred table style, a table in a
\* blockquote has got the grid style and the blockquote paragraph its indentation
C20_Witness ==
    /\ TableMade
    /\ self.styles \cap OptionalStyles = {"Table Grid"}
    /\ self.doc[Len(self.doc)].style = "Table Grid"
    /\ \E n \in 1..Len(self.doc) : self.doc[n].kind = "paragraph" /\ self.doc[n].indent

(***************************************************************************)
(* SpecQuote: the converter fed blockquotes, paragraphs in and around them *)
(* and text, the document having the quote style or not.                   *)
(***************************************************************************)
QuoteTags == {"blockquote", "p"}

QuoteData == {<<"a">>, <<" ">>}

NextQuote ==
    /\ nevents < MaxQuoteEvents
    /\ \/ \E tag \in QuoteTags : handle_starttag(tag, NoAttrs)
       \/ \E tag \in QuoteTags : Closes(tag) /\ handle_endtag(tag)
       \/ \E data \in QuoteData : handle_data(data)

SpecQuote == InitStyles /\ [][NextQuote]_vars

\* the paragraph has the quote style, or the indentation and spacing made by hand
QuoteStyled(para) == para.style = "Intense Quote" \/ (para.indent /\ para.spacing)

\* C23: text that is not whitespace only, received between a blockquote start tag
\* and its end tag, is placed in a paragraph that carries the quote styling, also
\* when a <p> element inside the blockquote wraps it.
C23_QuotedTextStyled ==
    (/\ last.kind = "data" /\ \E k \in 1..Len(last.data) : ~IsSpace(last.data[k])
     /\ IsOpen("blockquote"))
        => /\ self.current_run # NoRun
           /\ QuoteStyled(self.doc[self.current_run.p])

(***************************************************************************)
(* SpecImage: the converter fed paragraphs, text and images whose loading  *)
(* succeeds or fails.                                                      *)
(***************************************************************************)
ImageAttrs == {[NoAttrs EXCEPT !.src = src, !.alt = alt] :
                    src \in {Absent, "pic.png", "http://h/p.png"},
                    alt \in {Absent, "", "a cat"}}

ImageData == {<<"a">>}

NextImage ==
    /\ nevents < MaxImageEvents
    /\ \/ \E attrs \in ImageAttrs : handle_starttag("img", attrs)
       \/ handle_starttag("p", NoAttrs)
       \/ handle_endtag("p")
       \/ \E data \in ImageData : handle_data(data)

SpecImage == InitConverter /\ [][NextImage]_vars

\* an <img> with a source has just been handled and loading the image failed
ImageFailed == Started("img") /\ Get(last.attrs, "src", "") # "" /\ last.io # "ok"

Contains(text, str) == \E k \in 1..Len(text) : text[k] = str

LastRun(s, p) == s.doc[p].runs[Len(s.doc[p].runs)]

\* C6: when loading an image fails, an italic placeholder run is appended to the
\* active paragraph (made if there is none); its text contains the alt text, or the
\* source when there is no alt text (alt absent or empty); the events that follow
\* are still handled.
C6_ImagePlaceholder ==
    ImageFailed =>
        /\ self.raised = NoExc
        /\ self.current_paragraph # None
        /\ last.before.current_paragraph # None
                => self.current_paragraph = last.before.current_paragraph
        /\ self.doc[self.current_paragraph].runs # <<>>
        /\ LastRun(self, self.current_paragraph).kind = "fallback"
        /\ LastRun(self, self.current_paragraph).italic
        /\ Contains(LastRun(self, self.current_paragraph).text,
                    IF Get(last.attrs, "alt", "") # "" THEN last.attrs.alt ELSE last.attrs.src)

\* an <img> with a source has just been handled
ImageHandled == Started("img") /\ Get(last.attrs, "src", "") # ""

\* C11: after an image start tag with a source, there is no active paragraph and no
\* active run, whether inserting the image succeeded or failed.
C11_ImageClosesParagraph ==
    ImageHandled => (self.current_paragraph = None /\ self.current_run = NoRun)

(***************************************************************************)
(* SpecAnchor: the converter fed paragraphs, anchors, bold and text.       *)
(***************************************************************************)
AnchorAttrs == {[NoAttrs EXCEPT !.href = h] : h \in {Absent, "", "http://u"}}

AnchorData == {<<"a">>}

NextAnchor ==
    /\ nevents < MaxAnchorEvents
    /\ \/ \E attrs \in AnchorAttrs : handle_starttag("a", attrs)
       \/ \E tag \in {"p", "b"} : handle_starttag(tag, NoAttrs)
       \/ \E tag \in {"p", "b", "a"} : handle_endtag(tag)
       \/ \E data \in AnchorData : handle_data(data)

SpecAnchor == InitConverter /\ [][NextAnchor]_vars

\* </a> has just closed the anchor that was the innermost open element
AnchorEnded == Ended("a") /\ wellnested /\ last.top.tag = "a"

\* the end tag appended the run " (URL)" to a paragraph
Annotated ==
    \E p \in 1..Len(self.doc) :
        /\ self.doc[p].kind = "paragraph"
        /\ Len(self.doc[p].runs) = Len(last.before.doc[p].runs) + 1
        /\ LastRun(self, p).text = <<" (", last.before.link_url, ")">>

\* C12: at an anchor end tag the " (URL)" run is appended iff a non-empty link URL
\* is pending and a text event made at least one run between the anchor's start tag
\* and its end tag; the pending link is empty after the end tag in every case.
C12_AnchorAnnotation ==
    AnchorEnded =>
        /\ Annotated <=> (/\ "link_url" \in last.before.defined
                          /\ last.before.link_url # ""
                          /\ TextRuns(last.before.doc) > last.top.nruns)
        /\ self.link_url = ""

(***************************************************************************)
(* Spec: the converter fed any tag the handlers name, an unknown one, and  *)
(* text, in any order.                                                     *)
(***************************************************************************)
Tags == Headings \cup {"p", "strong", "b", "em", "i", "code", "pre", "ul", "ol", "li", "a",
                       "img", "table", "tr", "th", "td", "br", "blockquote", "hr",
                       "del", "s", "sup", "sub", "mark", "div", "span"}

AttrsOf(tag) ==
    CASE tag = "img" -> ImageAttrs
      [] tag = "a" -> {[NoAttrs EXCEPT !.href = h] : h \in {Absent, "http://u"}}
      [] tag = "div" -> {[NoAttrs EXCEPT !.class = c] : c \in {Absent, "pagebreak", "note"}}
      [] OTHER -> {NoAttrs}

AnyData == {<<"a">>, <<" ">>}

Next ==
    /\ nevents < MaxEvents
    /\ \/ \E tag \in Tags : \E attrs \in AttrsOf(tag) : handle_starttag(tag, attrs)
       \/ \E tag \in Tags : handle_endtag(tag)
       \/ \E data \in AnyData : handle_data(data)

Spec == InitConverter /\ [][Next]_vars

\* C7: whatever the sequence of start tags, end tags and text, well nested or not,
\* no handler raises: every event is consumed.
C7_NoHandlerRaises == self.raised = NoExc

(***************************************************************************)
(* SpecUnknown: the converter fed tags that write each kind of field       *)
(* (paragraph, flag, list, table, link), tags of unknown names, <div>, and *)
(* text.                                                                   *)
(***************************************************************************)
UnknownTags == {"span", "section"}

SomeTags == {"p", "b", "ol", "li", "table", "td", "a", "div"} \cup UnknownTags

NextUnknown ==
    /\ nevents < MaxUnknownEvents
    /\ \/ \E tag \in SomeTags : \E attrs \in AttrsOf(tag) : handle_starttag(tag, attrs)
       \/ \E tag \in SomeTags : handle_endtag(tag)
       \/ \E data \in AnyData : handle_data(data)

SpecUnknown == InitConverter /\ [][NextUnknown]_vars

\* the tag names handle_starttag and handle_endtag test for
HandledTags == Headings \cup {"p", "strong", "b", "em", "i", "code", "pre", "ul", "ol", "li",
                              "a", "img", "table", "tr", "th", "td", "br", "blockquote", "hr",
                              "del", "s", "sup", "sub", "mark", "div"}

\* the event handled last was a tag of another name, or a <div> that is no page break
UnknownTag ==
    \/ last.kind \in {"start", "end"} /\ last.tag \notin HandledTags
    \/ Started("div") /\ Get(last.attrs, "class", "") # "pagebreak"

\* C17: a start tag or end tag of a name outside the handled set, and a <div> start
\* tag whose class is not the page-break class, leaves every field of the converter
\* as it was (active paragraph and run, formatting flags, list level and counters,
\* table buffer, pending link) and adds nothing to the document.
C17_UnknownTagsIgnored == UnknownTag => self = last.before

\* an unknown start tag came while a bold run was active
C17_Witness ==
    /\ Started("span")
    /\ last.before.bold /\ last.before.current_run # NoRun
    /\ self.current_run = last.before.current_run

\* the blocks of the document that are tables
Tables(s) == {b \in 1..Len(s.doc) : s.doc[b].kind = "table"}

\* C13: a row end appends the row to the table buffer iff the row collected at least
\* one cell; a table end emits a table iff the buffer holds at least one row, and
\* with no row it emits nothing and raises no error; after every table end the
\* buffer is empty and the in-table flag is off.
C13_RowsAndEmptyTables ==
    /\ Ended("tr") =>
        /\ self.raised = NoExc
        /\ self.table_data = IF last.before.current_table_row # <<>>
                             THEN Append(last.before.table_data, last.before.current_table_row)
                             ELSE last.before.table_data
    /\ Ended("table") =>
        /\ self.raised = NoExc
        /\ IF last.before.table_data # <<>>
           THEN /\ Len(self.doc) = Len(last.before.doc) + 1
                /\ Tables(self) = Tables(last.before) \cup {Len(self.doc)}
           ELSE self.doc = last.before.doc
        /\ self.table_data = <<>>
        /\ ~self.in_table

(***************************************************************************)
(* main: the arguments are checked, then every input file is converted in  *)
(* turn; convert_markdown_to_docx returns or raises.                       *)
(***************************************************************************)
Outcomes == {"ok", "FileNotFoundError", "PermissionError", "UnicodeDecodeError",
             "Exception", "KeyboardInterrupt"}

\* the except clauses of the loop body
Caught_NoCatchAll(outcome) ==
    outcome \in {"FileNotFoundError", "PermissionError", "UnicodeDecodeError"}

Caught(outcome) ==
    outcome \in {"FileNotFoundError", "PermissionError", "UnicodeDecodeError", "Exception"}

\* what the except clause notes in failed_files for the file
ErrorText(outcome, input_file) ==
    CASE outcome = "FileNotFoundError" -> <<"Markdown file not found: ", input_file>>
      [] outcome = "PermissionError" -> <<"Permission denied">>
      [] outcome = "UnicodeDecodeError" -> <<"Encoding not supported">>
      [] OTHER -> <<"str(e)">>

\* 1 for any failure, 0 otherwise
ExitCode_AnyFailure(successes, failed) == IF failed # <<>> THEN 1 ELSE 0

\* the return value after the loop
ExitCode(successes, failed) ==
    IF successes = 0 THEN 1
    ELSE IF failed # <<>> THEN 2
    ELSE 0

InitMain ==
    /\ pc = "validate"
    /\ args \in [input : 1..MaxFiles, output : BOOLEAN, verbose : BOOLEAN, quiet : BOOLEAN]
    /\ outcomes = <<>> /\ attempted = <<>>
    /\ success_count = 0 /\ failed_files = <<>> /\ summary = NoSummary /\ exit_code = -1
    /\ self = NewConverter(AllStyles)
    /\ open = <<>> /\ wellnested = TRUE /\ nevents = 0
    /\ last = NoLast(NewConverter(AllStyles))
    /\ content = <<>> /\ result = <<>>

\* the check of -o with several files only
usage_error_OutputOnly(a) == a.output /\ a.input > 1

\* lines 618-628: the two usage errors
usage_error(a) == (a.output /\ a.input > 1) \/ (a.verbose /\ a.quiet)

\* lines 618-634: the usage errors, else the counters of the batch
main_validate ==
    /\ pc = "validate"
    /\ IF usage_error(args)
       THEN pc' = "usage_error" /\ exit_code' = 1
       ELSE pc' = "loop" /\ UNCHANGED exit_code
    /\ success_count' = 0 /\ failed_files' = <<>>
    /\ UNCHANGED <<args, outcomes, attempted, summary, convVars, prepVars>>

\* lines 638-673: one turn of the loop, for the next input file
main_convert ==
    /\ pc = "loop" /\ Len(attempted) < args.input
    /\ \E outcome \in Outcomes :
        LET input_file == Len(attempted) + 1
        IN /\ attempted' = Append(attempted, input_file)
           /\ outcomes' = Append(outcomes, outcome)
           /\ IF outcome = "ok"
              THEN /\ success_count' = success_count + 1
                   /\ UNCHANGED <<failed_files, pc, exit_code>>
              ELSE IF Caught(outcome)
              THEN /\ failed_files' = Append(failed_files,
                                             [file |-> input_file,
                                              error |-> ErrorText(outcome, input_file)])
                   /\ UNCHANGED <<success_count, pc, exit_code>>
              ELSE IF outcome = "KeyboardInterrupt"
              THEN /\ pc' = "cancelled" /\ exit_code' = ExitInterrupt
                   /\ UNCHANGED <<success_count, failed_files>>
              ELSE /\ pc' = "uncaught" /\ exit_code' = 1
                   /\ UNCHANGED <<success_count, failed_files>>
    /\ UNCHANGED <<args, summary, convVars, prepVars>>

\* lines 675-697: the summary of a batch and the return value
main_return ==
    /\ pc = "loop" /\ Len(attempted) = args.input
    /\ summary' = IF args.input > 1
                  THEN [successful |-> success_count, total |-> args.input,
                        failed |-> Len(failed_files), lines |-> failed_files]
                  ELSE NoSummary
    /\ exit_code' = ExitCode(success_count, failed_files)
    /\ pc' = "returned"
    /\ UNCHANGED <<args, outcomes, attempted, success_count, failed_files, convVars, prepVars>>

NextMain == main_validate \/ main_convert \/ main_return

SpecMain == InitMain /\ [][NextMain]_vars

Successes == Cardinality({i \in 1..Len(outcomes) : outcomes[i] = "ok"})

Interrupted == outcomes # <<>> /\ outcomes[Len(outcomes)] = "KeyboardInterrupt"

\* the batch of one conversion that succeeds, one file not found and one permission denied
MixedBatch ==
    /\ Len(outcomes) = 3
    /\ \A o \in {"ok", "FileNotFoundError", "PermissionError"} :
            \E i \in 1..3 : outcomes[i] = o

\* C8: without usage error and interrupt, main over N >= 1 files returns 0 iff all N
\* conversions succeeded, 1 iff none did, 2 iff some did and some failed; an
\* interrupt during the loop gives 130; one success with a file not found and a
\* permission denied gives 2 and a summary of 1 success and 2 failures whose error
\* texts differ.
C8_ExitCodes ==
    /\ pc = "returned" =>
        /\ Len(outcomes) = args.input
        /\ exit_code = 0 <=> Successes = args.input
        /\ exit_code = 1 <=> Successes = 0
        /\ exit_code = 2 <=> (0 < Successes /\ Successes < args.input)
    /\ Interrupted => (pc = "cancelled" /\ exit_code = ExitInterrupt)
    /\ (pc = "returned" /\ MixedBatch) =>
        /\ exit_code = 2
        /\ summary.successful = 1 /\ summary.total = 3 /\ summary.failed = 2
        /\ Len(summary.lines) = 2
        /\ summary.lines[1].error # summary.lines[2].error

C8_Witness ==
    /\ pc = "returned" /\ exit_code = 2
    /\ outcomes = <<"ok", "FileNotFoundError", "PermissionError">>
    /\ summary.failed = 2

\* C9: without interrupt every input file is attempted once, in argument order,
\* whatever the files before it did; when the loop ends the successes and the
\* recorded failures add up to the number of input files and each failed file is
\* recorded once.
C9_EveryFileAttempted ==
    /\ pc # "uncaught"
    /\ Len(attempted) <= args.input
    /\ \A i \in 1..Len(attempted) : attempted[i] = i
    /\ (outcomes # <<>> /\ ~Interrupted) => pc \in {"loop", "returned"}
    /\ pc = "returned" =>
        /\ Len(attempted) = args.input
        /\ success_count + Len(failed_files) = args.input
        /\ \A f \in 1..args.input :
            Cardinality({k \in 1..Len(failed_files) : failed_files[k].file = f})
                = IF outcomes[f] = "ok" THEN 0 ELSE 1

C9_Witness ==
    /\ pc = "returned"
    /\ outcomes = <<"Exception", "ok", "UnicodeDecodeError">>
    /\ attempted = <<1, 2, 3>>
    /\ success_count = 1 /\ Len(failed_files) = 2

\* C14: when main is invoked with an output path and more than one input file, or
\* with both the verbose and the quiet flag, it returns 1 and no conversion of an
\* input file is ever started.
C14_UsageErrorStopsMain ==
    ((args.output /\ args.input > 1) \/ (args.verbose /\ args.quiet)) =>
        /\ attempted = <<>> /\ outcomes = <<>> /\ success_count = 0
        /\ pc \in {"validate", "usage_error"}
        /\ pc = "usage_error" => exit_code = 1
        /\ pc = "validate" => exit_code = -1

\* main has returned for the two flags together, with one input file and no output path
C14_Witness ==
    /\ pc = "usage_error" /\ exit_code = 1
    /\ args.verbose /\ args.quiet /\ ~args.output /\ args.input = 1
    /\ attempted = <<>>

(***************************************************************************)
(* _preprocess_special_formatting: four passes of re.sub over the text.    *)
(* A match is looked for at each position from the left; after a match the *)
(* scan goes on behind it.  [^d]+ takes the longest stretch without d, and *)
(* no shorter one can be followed by d.  The tags put in are single tokens: *)
(* none of their characters is a delimiter.                                *)
(***************************************************************************)
\* the last position of the longest stretch of text from i without d (i - 1 if none)
RECURSIVE StretchEnd(_, _, _)
StretchEnd(text, i, d) ==
    IF i <= Len(text) /\ text[i] # d THEN StretchEnd(text, i + 1, d) ELSE i - 1

\* re.sub(r'dd([^d]+)dd', r'<tag>\1</tag>', text), scanning from position i
RECURSIVE SubDouble(_, _, _, _, _)
SubDouble(text, i, d, opening, closing) ==
    IF i > Len(text) THEN <<>>
    ELSE LET e == StretchEnd(text, i + 2, d)
             matches == /\ text[i] = d
                        /\ i + 1 <= Len(text) /\ text[i + 1] = d
                        /\ e >= i + 2
                        /\ e + 2 <= Len(text) /\ text[e + 1] = d /\ text[e + 2] = d
         IN IF matches
            THEN <<opening>> \o SubSeq(text, i + 2, e) \o <<closing>>
                    \o SubDouble(text, e + 3, d, opening, closing)
            ELSE <<text[i]>> \o SubDouble(text, i + 1, d, opening, closing)

\* re.sub(r'd([^d]+)d', ...) and, with `alone`, re.sub(r'(?<!d)d([^d]+)d(?!d)', ...)
RECURSIVE SubSingle(_, _, _, _, _, _)
SubSingle(text, i, d, opening, closing, alone) ==
    IF i > Len(text) THEN <<>>
    ELSE LET e == StretchEnd(text, i + 1, d)
             matches == /\ text[i] = d
                        /\ alone => (i = 1 \/ text[i - 1] # d)
                        /\ e >= i + 1
                        /\ e + 1 <= Len(text) /\ text[e + 1] = d
                        /\ alone => (e + 2 > Len(text) \/ text[e + 2] # d)
         IN IF matches
            THEN <<opening>> \o SubSeq(text, i + 1, e) \o <<closing>>
                    \o SubSingle(text, e + 2, d, opening, closing, alone)
            ELSE <<text[i]>> \o SubSingle(text, i + 1, d, opening, closing, alone)

Strikethrough(text) == SubDouble(text, 1, "~", "<del>", "</del>")
Highlight(text) == SubDouble(text, 1, "=", "<mark>", "</mark>")
Superscript(text) == SubSingle(text, 1, "^", "<sup>", "</sup>", FALSE)
Subscript(text) == SubSingle(text, 1, "~", "<sub>", "</sub>", TRUE)

\* the subscript pass run first
_preprocess_subscript_first(text) == Strikethrough(Superscript(Highlight(Subscript(text))))

_preprocess_special_formatting(text) == Subscript(Superscript(Highlight(Strikethrough(text))))

Alphabet == {"~", "s", "2"}

InitPreprocess ==
    /\ content \in UNION {[1..n -> Alphabet] : n \in 0..MaxLen}
    /\ result = <<>>
    /\ pc = "preprocess"
    /\ args = "none" /\ outcomes = <<>> /\ attempted = <<>>
    /\ success_count = 0 /\ failed_files = <<>> /\ summary = NoSummary /\ exit_code = -1
    /\ self = NewConverter(AllStyles)
    /\ open = <<>> /\ wellnested = TRUE /\ nevents = 0
    /\ last = NoLast(NewConverter(AllStyles))

preprocess ==
    /\ pc = "preprocess"
    /\ result' = _preprocess_special_formatting(content)
    /\ pc' = "preprocessed"
    /\ UNCHANGED <<content, args, outcomes, attempted, success_count, failed_files, summary,
                   exit_code, convVars>>

SpecPreprocess == InitPreprocess /\ [][preprocess]_vars

Tildes == {i \in 1..Len(content) : content[i] = "~"}

\* the position of the k-th tilde of content
Tilde(k) == CHOOSE i \in Tildes : Cardinality({j \in Tildes : j < i}) = k - 1

Part(from, to) == SubSeq(content, from, to)

\* content is  pre ~~struck~~ mid ~sub~ post, the five parts without tilde
StrikeThenSub ==
    /\ Cardinality(Tildes) = 6
    /\ Tilde(2) = Tilde(1) + 1 /\ Tilde(3) > Tilde(2) + 1 /\ Tilde(4) = Tilde(3) + 1
    /\ Tilde(6) > Tilde(5) + 1

\* content is  pre ~sub~ mid ~~struck~~ post, the five parts without tilde
SubThenStrike ==
    /\ Cardinality(Tildes) = 6
    /\ Tilde(2) > Tilde(1) + 1
    /\ Tilde(4) = Tilde(3) + 1 /\ Tilde(5) > Tilde(4) + 1 /\ Tilde(6) = Tilde(5) + 1

\* C10: a line with the strikethrough shorthand ~~struck~~ next to the subscript
\* shorthand H~2~O preprocesses to "struck" wrapped in the strikethrough tag and "2"
\* wrapped in the subscript tag: the tildes pair as written and none is left.
C10_StrikeNextToSubscript ==
    pc = "preprocessed" =>
        /\ StrikeThenSub =>
            result = Part(1, Tilde(1) - 1)
                        \o <<"<del>">> \o Part(Tilde(2) + 1, Tilde(3) - 1) \o <<"</del>">>
                        \o Part(Tilde(4) + 1, Tilde(5) - 1)
                        \o <<"<sub>">> \o Part(Tilde(5) + 1, Tilde(6) - 1) \o <<"</sub>">>
                        \o Part(Tilde(6) + 1, Len(content))
        /\ SubThenStrike =>
            result = Part(1, Tilde(1) - 1)
                        \o <<"<sub>">> \o Part(Tilde(1) + 1, Tilde(2) - 1) \o <<"</sub>">>
                        \o Part(Tilde(2) + 1, Tilde(3) - 1)
                        \o <<"<del>">> \o Part(Tilde(4) + 1, Tilde(5) - 1) \o <<"</del>">>
                        \o Part(Tilde(6) + 1, Len(content))
        /\ (StrikeThenSub \/ SubThenStrike) => \A k \in 1..Len(result) : result[k] # "~"

\* the line ~~s~~s~2~s of the claim, preprocessed
C10_Witness ==
    /\ pc = "preprocessed"
    /\ content = <<"~", "~", "s", "~", "~", "s", "~", "2", "~", "s">>
    /\ result = <<"<del>", "s", "</del>", "s", "<sub>", "2", "</sub>", "s">>

====
